---- MODULE Spec2Model ----
(***************************************************************************)
(* Inventory / invoice application over a hosted row store.                *)
(*                                                                         *)
(* The store is the schema of the two migrations (tables products,         *)
(* stock_movements, sales, sale_items, invoices, invoice_items,            *)
(* inventories, inventory_items) with its trigger update_product_stock.    *)
(* The application is the set of React handlers that write to it:          *)
(* handleSaveProduct, handleCreateSale, handleConfirmInvoice,              *)
(* handleCreateInventory, handleStartInventory, handleCompleteInventory,   *)
(* handleUpdateCount.                                                      *)
(*                                                                         *)
(* Quantities are numeric(10,3) in the schema; they are modelled as        *)
(* integers (no claim depends on the fraction or on overflow).  Columns    *)
(* that no handler reads back and no trigger uses (unit, min_stock_level,  *)
(* sale prices, dates, customer, notes, created_at, updated_at) are left   *)
(* out.  uuid keys are modelled by the row's position in its table: rows   *)
(* of products, sales and inventories are never deleted by the operations  *)
(* modelled here, and a deleted invoice keeps its position, marked deleted,*)
(* so that no key is issued twice.                                         *)
(***************************************************************************)
EXTENDS Integers, FiniteSets, Sequences, Bags, TLC

(***************************************************************************)
(* Bounds of the model.                                                    *)
(***************************************************************************)
MaxMovements == 3
MaxSaleItems == 2
MaxInvoiceItems == 2
MaxInventories == 1
MaxInvoices == 2
\* Stock levels are kept within -MaxStock .. MaxStock (the column is
\* numeric(10,3); a write that would leave the range is not taken).
MaxStock == 4

\* Product names a user or an invoice line can carry.
Names == {"bolt", "nut"}
\* Numbers a numeric input accepts: parseFloat(e.target.value) || 0 has no
\* lower limit, so zero and negative values are inputs like any other.
Quantities == {-1, 0, 2}
\* Values typed as "Stan poczatkowy" / counted quantity.
StockInputs == {0, 3}
\* Names an invoice line can carry: two that differ only in case.
ItemNames == {"bolt", "Bolt"}
\* Net prices of invoice lines.
Prices == {5, 7}
SaleNumbers == {"SP/1"}
InvoiceNumbers == {"FV/1"}
\* The two browser sessions whose views can be out of date.
Sessions == {1, 2}

\* SQL NULL / a present value, for nullable columns and optional state.
NULL == << >>
Some(v) == << v >>
IsNull(x) == x = << >>
Val(x) == x[1]

VARIABLES
  products,          \* table products: id = index,
                     \*   [name, current_stock, last_purchase_price]
  stock_movements,   \* table stock_movements: a bag of rows
  sales,             \* table sales: id = index, [sale_number]
  sale_items,        \* table sale_items: a bag of rows
  invoices,          \* table invoices: id = index, [invoice_number, deleted]
  invoice_items,     \* table invoice_items: a bag of rows
  inventories,       \* table inventories: id = index, [status, completed_at]
  inventory_items,   \* table inventory_items: a set of rows
  editingProduct,    \* ProductManager: the product the form edits, or NULL
  editedData,        \* InvoiceEditor: its state editedData, NULL when closed
  confirming,        \* App, per session: the handleConfirmInvoice call that is
                     \*   under way and the request it makes next, or NULL
  imProducts,        \* InventoryManager, per session: the products it loaded
  imInventories,     \* InventoryManager, per session: the list it last loaded
  selectedInventory, \* InventoryManager, per session: the modal's inventory
  lastOp             \* history: the operation that produced this state

store == << products, stock_movements, sales, sale_items, invoices,
            invoice_items, inventories, inventory_items >>
views == << editingProduct, editedData, confirming, imProducts,
            imInventories, selectedInventory >>
imViews == << imProducts, imInventories, selectedInventory >>
vars == << products, stock_movements, sales, sale_items, invoices,
           invoice_items, inventories, inventory_items,
           editingProduct, editedData, confirming, imProducts, imInventories,
           selectedInventory, lastOp >>

(***************************************************************************)
(* Helpers over tables.                                                    *)
(***************************************************************************)
ProductIds == DOMAIN products

\* Sum of f[x] over the sequence s.
RECURSIVE SeqSum(_)
SeqSum(s) == IF s = << >> THEN 0 ELSE Head(s) + SeqSum(Tail(s))

\* Sum over a bag of rows of row.quantity for the rows that satisfy Keep.
RECURSIVE BagQuantity(_, _)
BagQuantity(B, rows) ==
  IF rows = {} THEN 0
  ELSE LET r == CHOOSE x \in rows : TRUE
       IN  r.quantity * CopiesIn(r, B) + BagQuantity(B, rows \ {r})

\* The number of rows of the bag B among rows, each with its copies.
RECURSIVE CopiesSum(_, _)
CopiesSum(B, rows) ==
  IF rows = {} THEN 0
  ELSE LET r == CHOOSE x \in rows : TRUE
       IN  CopiesIn(r, B) + CopiesSum(B, rows \ {r})

MovementsOf(p) == {m \in BagToSet(stock_movements) : m.product_id = p}
\* The signed sum of quantity over all stock_movements rows of product p.
LedgerSum(p) == BagQuantity(stock_movements, MovementsOf(p))

\* The cap on stock levels.
StockInRange(P) ==
  \A p \in DOMAIN P : P[p].current_stock \in (0 - MaxStock) .. MaxStock

\* A store that accepts a product name twice.
NameTaken_never(name) == FALSE

\* products.name is UNIQUE.
NameTaken(name) == \E p \in ProductIds : products[p].name = name

(***************************************************************************)
(* The trigger trigger_update_product_stock.                               *)
(***************************************************************************)
\* UPDATE products SET current_stock = current_stock + d WHERE id = pid
AddStock(P, pid, d) ==
  [p \in DOMAIN P |->
     IF p = pid THEN [P[p] EXCEPT !.current_stock = @ + d] ELSE P[p]]

\* A faulty trigger whose DELETE branch adds the quantity once more.
update_product_stock_nodelete(P, TG_OP, OLDROW, NEWROW) ==
  CASE TG_OP = "INSERT" -> AddStock(P, NEWROW.product_id, NEWROW.quantity)
    [] TG_OP = "DELETE" -> AddStock(P, OLDROW.product_id, OLDROW.quantity)
    [] TG_OP = "UPDATE" -> AddStock(P, NEWROW.product_id, NEWROW.quantity - OLDROW.quantity)
    [] OTHER -> P

\* AFTER INSERT OR UPDATE OR DELETE ON stock_movements FOR EACH ROW
update_product_stock(P, TG_OP, OLDROW, NEWROW) ==
  CASE TG_OP = "INSERT" -> AddStock(P, NEWROW.product_id, NEWROW.quantity)
    [] TG_OP = "DELETE" -> AddStock(P, OLDROW.product_id, 0 - OLDROW.quantity)
    [] TG_OP = "UPDATE" -> AddStock(P, NEWROW.product_id, (0 - OLDROW.quantity) + NEWROW.quantity)
    [] OTHER -> P

\* A multi-row INSERT INTO stock_movements: the trigger fires row by row.
RECURSIVE InsertRows(_, _)
InsertRows(P, rows) ==
  IF rows = << >> THEN P
  ELSE InsertRows(update_product_stock(P, "INSERT", Head(rows), Head(rows)), Tail(rows))

RECURSIVE SeqToBag(_)
SeqToBag(rows) ==
  IF rows = << >> THEN EmptyBag ELSE SetToBag({Head(rows)}) (+) SeqToBag(Tail(rows))

Movement(pid, type, q, ref, reftype) ==
  [product_id |-> pid, movement_type |-> type, quantity |-> q,
   reference_id |-> ref, reference_type |-> reftype]

(***************************************************************************)
(* Direct row operations on stock_movements (the policies allow every      *)
(* client all of INSERT, UPDATE and DELETE).                               *)
(***************************************************************************)
InsertMovement(p, q) ==
  /\ BagCardinality(stock_movements) < MaxMovements
  /\ p \in ProductIds          \* product_id REFERENCES products(id)
  /\ LET NEWROW == Movement(p, "adjustment", q, NULL, "manual")
     IN  /\ stock_movements' = stock_movements (+) SetToBag({NEWROW})
         /\ products' = update_product_stock(products, "INSERT", NEWROW, NEWROW)
         /\ StockInRange(products')
         /\ lastOp' = [op |-> "insert_movement", row |-> NEWROW]
  /\ UNCHANGED << sales, sale_items, invoices, invoice_items, inventories,
                  inventory_items, views >>

DeleteMovement(OLDROW) ==
  /\ BagIn(OLDROW, stock_movements)
  /\ stock_movements' = stock_movements (-) SetToBag({OLDROW})
  /\ products' = update_product_stock(products, "DELETE", OLDROW, OLDROW)
  /\ StockInRange(products')
  /\ lastOp' = [op |-> "delete_movement", row |-> OLDROW]
  /\ UNCHANGED << sales, sale_items, invoices, invoice_items, inventories,
                  inventory_items, views >>

UpdateMovement(OLDROW, p, q) ==
  /\ BagIn(OLDROW, stock_movements)
  /\ p \in ProductIds
  /\ LET NEWROW == [OLDROW EXCEPT !.product_id = p, !.quantity = q]
     IN  /\ stock_movements' = (stock_movements (-) SetToBag({OLDROW})) (+) SetToBag({NEWROW})
         /\ products' = update_product_stock(products, "UPDATE", OLDROW, NEWROW)
         /\ StockInRange(products')
         /\ lastOp' = [op |-> "update_movement", old |-> OLDROW, row |-> NEWROW]
  /\ UNCHANGED << sales, sale_items, invoices, invoice_items, inventories,
                  inventory_items, views >>

(***************************************************************************)
(* ProductManager: the product list and the product form.                  *)
(***************************************************************************)
\* loadProducts (select * from products) followed by the "Edytuj" button of
\* a row of the loaded list: setEditingProduct(product).  The form keeps the
\* row as it was loaded, whatever is written to the store afterwards.
EditProduct(p) ==
  /\ IsNull(editingProduct)
  /\ p \in ProductIds
  /\ editingProduct' = Some([id |-> p, name |-> products[p].name,
                             current_stock |-> products[p].current_stock])
  /\ lastOp' = [op |-> "view"]
  /\ UNCHANGED << store, imViews, editedData, confirming >>

\* onCancel of the form
CancelEdit ==
  /\ ~IsNull(editingProduct)
  /\ editingProduct' = NULL
  /\ lastOp' = [op |-> "view"]
  /\ UNCHANGED << store, imViews, editedData, confirming >>

\* ProductForm's formData: name is typed; current_stock is typed ("Stan
\* poczatkowy") for a new product and is product.current_stock || 0, the
\* value the form was opened with, for an edited one.
ProductFormData(product, name, typedStock) ==
  [name |-> name,
   current_stock |-> IF IsNull(product) THEN typedStock
                     ELSE Val(product).current_stock]

\* handleSaveProduct, editingProduct = null: insert([productData])
SaveNewProduct(name, typedStock, fail) ==
  /\ IsNull(editingProduct)
  /\ LET productData == ProductFormData(NULL, name, typedStock)
         error == fail \/ NameTaken(productData.name)
         \* the columns the form does not send take their DEFAULT
         row == [name |-> productData.name,
                 current_stock |-> productData.current_stock,
                 last_purchase_price |-> Some(0)]
     IN  /\ products' = IF error THEN products ELSE Append(products, row)
         /\ lastOp' = [op |-> "save_new_product", ok |-> ~error]
  /\ UNCHANGED << stock_movements, sales, sale_items, invoices, invoice_items,
                  inventories, inventory_items, editingProduct, editedData, confirming, imViews >>

\* handleSaveProduct, editingProduct set:
\* update({...productData, updated_at}).eq('id', editingProduct.id)
SaveEditedProduct(name, fail) ==
  /\ ~IsNull(editingProduct)
  /\ LET id == Val(editingProduct).id
         productData == ProductFormData(editingProduct, name, 0)
         error == fail \/ \E p \in ProductIds \ {id} : products[p].name = productData.name
     IN  /\ products' = IF error THEN products
                        ELSE [products EXCEPT
                                ![id].name = productData.name,
                                ![id].current_stock = productData.current_stock]
         /\ editingProduct' = IF error THEN editingProduct ELSE NULL
         /\ lastOp' = [op |-> "save_edited_product", ok |-> ~error]
  /\ UNCHANGED << stock_movements, sales, sale_items, invoices, invoice_items,
                  inventories, inventory_items, imViews, editedData, confirming >>

(***************************************************************************)
(* SalesManager: handleCreateSale.                                         *)
(***************************************************************************)
\* The rows of the sale form: a product of the loaded list and a typed
\* quantity each; the form starts with one row and keeps at least one.
SaleItemLists ==
  UNION {[1 .. n -> [product_id : ProductIds, quantity : Quantities]] :
           n \in 1 .. MaxSaleItems}

\* sale_items rows: saleData.items.map(item => ({sale_id: sale.id, ...}))
SaleItems(saleId, items) ==
  [i \in DOMAIN items |->
     [sale_id |-> saleId, product_id |-> items[i].product_id,
      quantity |-> items[i].quantity]]

\* A faulty mapping that writes the quantity as entered.
SaleMovements_unsigned(saleItems) ==
  [i \in DOMAIN saleItems |->
     Movement(saleItems[i].product_id, "sale", saleItems[i].quantity,
              Some(saleItems[i].sale_id), "sale_item")]

\* stock_movements rows:
\* saleItems.map(item => ({movement_type: 'sale', quantity: -item.quantity, ...}))
SaleMovements(saleItems) ==
  [i \in DOMAIN saleItems |->
     Movement(saleItems[i].product_id, "sale", 0 - saleItems[i].quantity,
              Some(saleItems[i].sale_id), "sale_item")]

\* The three inserts of handleCreateSale; failAt names the insert the store
\* rejects ("none": the store accepts every insert it can accept).
handleCreateSale(saleData, failAt) ==
  LET saleId == Len(sales) + 1
      saleError ==
        \/ failAt = "sales"
        \/ \E s \in DOMAIN sales : sales[s].sale_number = saleData.sale_number
      saleItems == SaleItems(saleId, saleData.items)
      itemsError ==
        \/ failAt = "sale_items"
        \/ \E i \in DOMAIN saleItems : saleItems[i].product_id \notin ProductIds
      stockMovements == SaleMovements(saleItems)
      movementsError == failAt = "stock_movements"
      failed == IF saleError THEN "sales"
                ELSE IF itemsError THEN "sale_items"
                ELSE IF movementsError THEN "stock_movements" ELSE "none"
  IN  /\ sales' = IF failed = "sales" THEN sales
                  ELSE Append(sales, [sale_number |-> saleData.sale_number])
      /\ sale_items' = IF failed \in {"sales", "sale_items"} THEN sale_items
                       ELSE sale_items (+) SeqToBag(saleItems)
      /\ stock_movements' = IF failed # "none" THEN stock_movements
                            ELSE stock_movements (+) SeqToBag(stockMovements)
      /\ products' = IF failed # "none" THEN products
                     ELSE InsertRows(products, stockMovements)
      /\ StockInRange(products')
      /\ lastOp' = IF failed = "none"
                   THEN [op |-> "create_sale", failed |-> failed, sale_id |-> saleId,
                         items |-> saleData.items]
                   ELSE [op |-> "create_sale", failed |-> failed]
      /\ UNCHANGED << invoices, invoice_items, inventories, inventory_items, views >>

(***************************************************************************)
(* App: handleConfirmInvoice.                                              *)
(***************************************************************************)
\* parsedData.items: a name, a quantity and a net price each.
InvoiceItemLists ==
  UNION {[1 .. n -> [name : ItemNames, quantity : Quantities, net_price : Prices]] :
           n \in 1 .. MaxInvoiceItems}

\* invoice_items.id (gen_random_uuid()) of the k-th item of an invoice: a
\* key no row of another table has (the keys of the other tables are the
\* positive positions of their rows).
InvoiceItemId(invoiceId, k) == 0 - (invoiceId * (MaxInvoiceItems + 1) + k)

\* The rows of invoices that exist.
InvoiceIds == {v \in DOMAIN invoices : ~invoices[v].deleted}

\* A store that accepts an invoice number twice.
InvoiceNumberTaken_never(number) == FALSE

\* invoices.invoice_number is UNIQUE.
InvoiceNumberTaken(number) ==
  \E v \in InvoiceIds : invoices[v].invoice_number = number

\* SELECT ii.net_price FROM invoice_items ii WHERE ii.id = reference_id:
\* a scalar subquery, NULL when no row is selected.
NetPriceOf(II, reference_id) ==
  LET found == {ii \in BagToSet(II) : Some(ii.id) = reference_id}
  IN  IF found = {} THEN NULL ELSE Some((CHOOSE ii \in found : TRUE).net_price)

\* AFTER INSERT ON stock_movements FOR EACH ROW:
\* IF NEW.movement_type = 'purchase' AND NEW.reference_type = 'invoice_item'
\* THEN UPDATE products SET last_purchase_price = (SELECT ...) WHERE id = NEW.product_id
update_product_price_from_purchase(P, II, NEWROW) ==
  IF NEWROW.movement_type = "purchase" /\ NEWROW.reference_type = "invoice_item"
  THEN [p \in DOMAIN P |->
          IF p = NEWROW.product_id
          THEN [P[p] EXCEPT !.last_purchase_price = NetPriceOf(II, NEWROW.reference_id)]
          ELSE P[p]]
  ELSE P

\* Lower-case form of a name.
Lower(name) == IF name = "Bolt" THEN "bolt" ELSE name

\* A faulty lookup that ignores case.
FindProduct_ilike(P, name) == {p \in DOMAIN P : Lower(P[p].name) = Lower(name)}

\* from('products').select('*').eq('name', item.name)
FindProduct(P, name) == {p \in DOMAIN P : P[p].name = name}

\* The store request that fails: none, the invoice insert, the items insert,
\* or one of the three requests of the loop's iteration for item k.
FailPoints(n) ==
  {[item |-> 0, step |-> s] : s \in {"none", "invoices", "invoice_items"}}
    \cup {[item |-> k, step |-> s] :
            k \in 1 .. n, s \in {"select_product", "insert_product", "insert_movement"}}

\* A faulty loop that goes on with the next item when a request fails.
RECURSIVE ConfirmItems_continue(_, _, _, _, _, _, _)
ConfirmItems_continue(P, M, II, items, k, invoiceId, failAt) ==
  IF k > Len(items)
  THEN [products |-> P, stock_movements |-> M, failed |-> failAt]
  ELSE
    LET item == items[k]
        existing == FindProduct(P, item.name)
        newProduct == [name |-> item.name, current_stock |-> 0,
                       last_purchase_price |-> Some(item.net_price)]
        P1 == IF existing = {} THEN Append(P, newProduct) ELSE P
        productId == IF existing = {} THEN Len(P) + 1 ELSE CHOOSE p \in existing : TRUE
        row == Movement(productId, "purchase", item.quantity, Some(invoiceId), "invoice_item")
        P2 == update_product_stock(update_product_price_from_purchase(P1, II, row),
                                   "INSERT", row, row)
    IN  IF failAt.item = k
        THEN ConfirmItems_continue(P, M, II, items, k + 1, invoiceId, failAt)
        ELSE ConfirmItems_continue(P2, M (+) SetToBag({row}), II, items, k + 1,
                                   invoiceId, failAt)

\* for (const item of parsedData.items) { select product by name; insert it
\* when absent; insert the purchase movement }, from item k on.  The result
\* is the tables as the loop leaves them and the request that failed.  II
\* is invoice_items as the price trigger finds it.
RECURSIVE ConfirmItems(_, _, _, _, _, _, _)
ConfirmItems(P, M, II, items, k, invoiceId, failAt) ==
  IF k > Len(items)
  THEN [products |-> P, stock_movements |-> M, failed |-> [item |-> 0, step |-> "none"]]
  ELSE
    LET item == items[k]
        existing == FindProduct(P, item.name)
        newProduct == [name |-> item.name, current_stock |-> 0,
                       last_purchase_price |-> Some(item.net_price)]
        P1 == IF existing = {} THEN Append(P, newProduct) ELSE P
        productId == IF existing = {} THEN Len(P) + 1 ELSE CHOOSE p \in existing : TRUE
        row == Movement(productId, "purchase", item.quantity, Some(invoiceId), "invoice_item")
        P2 == update_product_stock(update_product_price_from_purchase(P1, II, row),
                                   "INSERT", row, row)
    IN  IF failAt = [item |-> k, step |-> "select_product"]
        THEN [products |-> P, stock_movements |-> M, failed |-> failAt]
        ELSE IF existing = {} /\ failAt = [item |-> k, step |-> "insert_product"]
        THEN [products |-> P, stock_movements |-> M, failed |-> failAt]
        ELSE IF failAt = [item |-> k, step |-> "insert_movement"]
        THEN [products |-> P1, stock_movements |-> M, failed |-> failAt]
        ELSE ConfirmItems(P2, M (+) SetToBag({row}), II, items, k + 1, invoiceId, failAt)

handleConfirmInvoice(parsedData, failAt) ==
  LET invoiceId == Len(invoices) + 1
      invoiceError ==
        failAt.step = "invoices" \/ InvoiceNumberTaken(parsedData.invoiceNumber)
      itemsError == failAt.step = "invoice_items"
      items == [i \in DOMAIN parsedData.items |->
                  [id |-> InvoiceItemId(invoiceId, i), invoice_id |-> invoiceId,
                   name |-> parsedData.items[i].name,
                   quantity |-> parsedData.items[i].quantity,
                   net_price |-> parsedData.items[i].net_price]]
      II == invoice_items (+) SeqToBag(items)
      loop == ConfirmItems(products, stock_movements, II, parsedData.items, 1,
                           invoiceId, failAt)
      failed == IF invoiceError THEN [item |-> 0, step |-> "invoices"]
                ELSE IF itemsError THEN [item |-> 0, step |-> "invoice_items"]
                ELSE loop.failed
  IN  /\ Len(invoices) < MaxInvoices
      /\ invoices' = IF invoiceError THEN invoices
                     ELSE Append(invoices, [invoice_number |-> parsedData.invoiceNumber,
                                            deleted |-> FALSE])
      /\ invoice_items' = IF invoiceError \/ itemsError THEN invoice_items ELSE II
      /\ products' = IF invoiceError \/ itemsError THEN products ELSE loop.products
      /\ stock_movements' = IF invoiceError \/ itemsError THEN stock_movements
                            ELSE loop.stock_movements
      /\ StockInRange(products')
      /\ lastOp' = IF failed.step = "invoices"
                   THEN [op |-> "confirm_invoice", failed |-> failed]
                   ELSE [op |-> "confirm_invoice", failed |-> failed,
                         invoice_id |-> invoiceId, items |-> parsedData.items]
      /\ UNCHANGED << sales, sale_items, inventories, inventory_items, views >>

\* confirmDeleteInvoice for an invoice of the list: delete its invoice_items,
\* then the invoices row.  Neither result's error is looked at; deleting the
\* invoices row removes its items too (ON DELETE CASCADE).  failAt names the
\* request the store refuses.
confirmDeleteInvoice(invoiceId, failAt) ==
  LET itemsDeleted == failAt # "invoice_items"
      invoiceDeleted == failAt # "invoices"
      rows == {ii \in BagToSet(invoice_items) : ii.invoice_id = invoiceId}
  IN  /\ invoiceId \in InvoiceIds
      /\ invoices' = IF invoiceDeleted
                     THEN [invoices EXCEPT ![invoiceId].deleted = TRUE]
                     ELSE invoices
      /\ invoice_items' = IF itemsDeleted \/ invoiceDeleted
                          THEN invoice_items (-) SetToBag(rows)
                          ELSE invoice_items
      /\ lastOp' = [op |-> "delete_invoice", invoice_id |-> invoiceId,
                    items_deleted |-> itemsDeleted, invoice_deleted |-> invoiceDeleted]
      /\ UNCHANGED << products, stock_movements, sales, sale_items, inventories,
                      inventory_items, views >>

(***************************************************************************)
(* InventoryManager: the inventory list, its buttons and the count modal.  *)
(***************************************************************************)
\* A faulty difference: expected_quantity - counted_quantity.
Difference_reversed(item) ==
  IF IsNull(item.counted_quantity) THEN NULL
  ELSE Some(item.expected_quantity - Val(item.counted_quantity))

\* A faulty difference that takes a count of 0 for no count.
Difference_zeroIsUncounted(item) ==
  IF IsNull(item.counted_quantity) \/ Val(item.counted_quantity) = 0 THEN NULL
  ELSE Some(Val(item.counted_quantity) - item.expected_quantity)

\* inventory_items.difference:
\* GENERATED ALWAYS AS (counted_quantity - expected_quantity) STORED
Difference(item) ==
  IF IsNull(item.counted_quantity) THEN NULL
  ELSE Some(Val(item.counted_quantity) - item.expected_quantity)

ItemsOf(inventoryId) == {it \in inventory_items : it.inventory_id = inventoryId}

\* What loadInventories puts into the list: each inventory with its status.
InventoryList == [i \in DOMAIN inventories |-> inventories[i].status]
\* What loadProducts puts into the list: each product with its stock.
ProductList == [p \in DOMAIN products |-> products[p].current_stock]

\* The component mounts: useEffect(() => { loadInventories(); loadProducts(); })
MountInventoryManager(s) ==
  /\ imInventories' = [imInventories EXCEPT ![s] = InventoryList]
  /\ imProducts' = [imProducts EXCEPT ![s] = ProductList]
  /\ selectedInventory' = [selectedInventory EXCEPT ![s] = NULL]
  /\ << imProducts', imInventories', selectedInventory' >> # imViews
  /\ lastOp' = [op |-> "view"]
  /\ UNCHANGED << store, editingProduct, editedData, confirming >>

\* handleCreateInventory: the form offers the loaded products and
\* handleSubmit refuses an empty selection.
handleCreateInventory(s, product_ids, failAt) ==
  /\ IsNull(selectedInventory[s])
  /\ Len(inventories) < MaxInventories
  /\ product_ids # {}
  /\ product_ids \subseteq DOMAIN imProducts[s]
  /\ LET inventoryId == Len(inventories) + 1
         inventoryItems ==
           {[inventory_id |-> inventoryId, product_id |-> p,
             expected_quantity |-> imProducts[s][p],
             counted_quantity |-> NULL] : p \in product_ids}
         failed == IF failAt = "inventories" THEN "inventories"
                   ELSE IF failAt = "inventory_items" THEN "inventory_items"
                   ELSE "none"
     IN  /\ inventories' = IF failed = "inventories" THEN inventories
                           ELSE Append(inventories,
                                       [status |-> "draft", completed_at |-> NULL])
         /\ inventory_items' = IF failed # "none" THEN inventory_items
                               ELSE inventory_items \cup inventoryItems
         /\ imInventories' = IF failed # "none" THEN imInventories
                             ELSE [imInventories EXCEPT
                                     ![s] = [i \in DOMAIN inventories' |->
                                               inventories'[i].status]]
         /\ lastOp' = [op |-> "create_inventory", failed |-> failed]
  /\ UNCHANGED << products, stock_movements, sales, sale_items, invoices,
                  invoice_items, editingProduct, editedData, confirming, imProducts, selectedInventory >>

\* handleStartInventory, from the button a row shows while the loaded list
\* has the inventory as draft: update({status: 'in_progress'}).eq('id', id)
handleStartInventory(s, inventoryId, fail) ==
  /\ IsNull(selectedInventory[s])
  /\ inventoryId \in DOMAIN imInventories[s]
  /\ imInventories[s][inventoryId] = "draft"
  /\ inventories' = IF fail THEN inventories
                    ELSE [inventories EXCEPT ![inventoryId].status = "in_progress"]
  /\ imInventories' = IF fail THEN imInventories
                      ELSE [imInventories EXCEPT
                              ![s] = [i \in DOMAIN inventories' |->
                                        inventories'[i].status]]
  /\ lastOp' = [op |-> "start_inventory", ok |-> ~fail,
                from |-> inventories[inventoryId].status]
  /\ UNCHANGED << products, stock_movements, sales, sale_items, invoices,
                  invoice_items, inventory_items, editingProduct, editedData, confirming, imProducts,
                  selectedInventory >>

\* A faulty selection that posts a movement for every counted item.
CompensatingMovements_all(inventoryId, items) ==
  {Movement(item.product_id, "inventory", Val(Difference(item)),
            Some(inventoryId), "inventory") :
     item \in {it \in items : ~IsNull(Difference(it))}}

\* items.filter(item => item.difference !== 0).map(item => ({...})) over the
\* rows selected with .not('difference', 'is', null)
CompensatingMovements(inventoryId, items) ==
  {Movement(item.product_id, "inventory", Val(Difference(item)),
            Some(inventoryId), "inventory") :
     item \in {it \in items : ~IsNull(Difference(it)) /\ Val(Difference(it)) # 0}}

\* The rows of a set in some order (the order of one multi-row insert does
\* not change the sums the trigger leaves).
RECURSIVE SetToSeq(_)
SetToSeq(S) ==
  IF S = {} THEN << >>
  ELSE LET x == CHOOSE y \in S : TRUE IN << x >> \o SetToSeq(S \ {x})

\* handleCompleteInventory, from the button a row shows while the loaded
\* list has the inventory as in_progress.
handleCompleteInventory(s, inventoryId, failAt) ==
  /\ IsNull(selectedInventory[s])
  /\ inventoryId \in DOMAIN imInventories[s]
  /\ imInventories[s][inventoryId] = "in_progress"
  /\ LET stockMovements == SetToSeq(CompensatingMovements(inventoryId, ItemsOf(inventoryId)))
         failed == IF failAt = "inventories" THEN "inventories"
                   ELSE IF failAt = "select_items" THEN "select_items"
                   ELSE IF failAt = "stock_movements" /\ Len(stockMovements) > 0
                   THEN "stock_movements" ELSE "none"
     IN  /\ inventories' =
              IF failed = "inventories" THEN inventories
              ELSE [inventories EXCEPT
                      ![inventoryId] = [status |-> "completed",
                                        completed_at |-> Some("now")]]
         /\ stock_movements' = IF failed # "none" THEN stock_movements
                               ELSE stock_movements (+) SeqToBag(stockMovements)
         /\ products' = IF failed # "none" THEN products
                        ELSE InsertRows(products, stockMovements)
         /\ StockInRange(products')
         /\ imInventories' = IF failed # "none" THEN imInventories
                             ELSE [imInventories EXCEPT
                                     ![s] = [i \in DOMAIN inventories' |->
                                               inventories'[i].status]]
         /\ lastOp' = [op |-> "complete_inventory", failed |-> failed,
                       inventory_id |-> inventoryId,
                       from |-> inventories[inventoryId].status]
  /\ UNCHANGED << sales, sale_items, invoices, invoice_items, inventory_items,
                  editingProduct, editedData, confirming, imProducts, selectedInventory >>

\* The "Zobacz szczegoly" button: setSelectedInventory(inventory), the row of
\* the loaded list; the modal keeps it until it is closed.
SelectInventory(s, inventoryId) ==
  /\ IsNull(selectedInventory[s])
  /\ inventoryId \in DOMAIN imInventories[s]
  /\ selectedInventory' =
       [selectedInventory EXCEPT
          ![s] = Some([id |-> inventoryId, status |-> imInventories[s][inventoryId]])]
  /\ lastOp' = [op |-> "view"]
  /\ UNCHANGED << store, editingProduct, editedData, confirming, imProducts, imInventories >>

\* onClose of the modal
CloseInventory(s) ==
  /\ ~IsNull(selectedInventory[s])
  /\ selectedInventory' = [selectedInventory EXCEPT ![s] = NULL]
  /\ lastOp' = [op |-> "view"]
  /\ UNCHANGED << store, editingProduct, editedData, confirming, imProducts, imInventories >>

\* handleUpdateCount, from a row of the modal; the row offers "Policz" /
\* "Edytuj" while canEdit = (inventory.status === 'in_progress') for the
\* inventory the modal was opened with.
handleUpdateCount(s, product_id, countedQuantity, fail) ==
  /\ ~IsNull(selectedInventory[s])
  /\ Val(selectedInventory[s]).status = "in_progress"
  /\ \E item \in ItemsOf(Val(selectedInventory[s]).id) :
       /\ item.product_id = product_id
       /\ inventory_items' =
            IF fail THEN inventory_items
            ELSE (inventory_items \ {item}) \cup
                   {[item EXCEPT !.counted_quantity = Some(countedQuantity)]}
       /\ lastOp' = [op |-> "update_count", ok |-> ~fail,
                     during |-> inventories[item.inventory_id].status,
                     item |-> item, counted |-> countedQuantity]
  /\ UNCHANGED << products, stock_movements, sales, sale_items, invoices,
                  invoice_items, inventories, editingProduct, editedData, confirming, imViews >>

\* PDFGenerator.createInventoryHTML: the row of the report for an item.
\* counted is the "Policzono" cell, NULL for '-'.
ReportRow(item) ==
  LET difference == IF IsNull(Difference(item)) THEN 0 ELSE Val(Difference(item))
  IN  [product_id |-> item.product_id,
       expected |-> item.expected_quantity,
       counted |-> IF ~IsNull(item.counted_quantity) THEN item.counted_quantity
                   ELSE NULL,
       status |-> IF IsNull(item.counted_quantity) THEN "Nie policzono"
                  ELSE IF difference = 0 THEN "OK"
                  ELSE IF difference > 0 THEN "Nadwyzka" ELSE "Niedobor"]

createInventoryHTML(items) == {ReportRow(item) : item \in items}

\* handleExportPDF, from the button a row shows while the loaded list has
\* the inventory as completed: select the items, generateInventoryPDF.
handleExportPDF(s, inventoryId, fail) ==
  /\ IsNull(selectedInventory[s])
  /\ inventoryId \in DOMAIN imInventories[s]
  /\ imInventories[s][inventoryId] = "completed"
  /\ lastOp' = [op |-> "export_pdf", ok |-> ~fail, inventory_id |-> inventoryId,
                rows |-> IF fail THEN {}
                         ELSE createInventoryHTML(ItemsOf(inventoryId))]
  /\ UNCHANGED << store, views >>

(***************************************************************************)
(* The store after the migrations, and the components after mounting.      *)
(***************************************************************************)
Init ==
  /\ products = << >>
  /\ stock_movements = EmptyBag
  /\ sales = << >>
  /\ sale_items = EmptyBag
  /\ invoices = << >>
  /\ invoice_items = EmptyBag
  /\ inventories = << >>
  /\ inventory_items = {}
  /\ editingProduct = NULL
  /\ editedData = NULL
  /\ confirming = [c \in Sessions |-> NULL]
  /\ imProducts = [s \in Sessions |-> << >>]
  /\ imInventories = [s \in Sessions |-> << >>]
  /\ selectedInventory = [s \in Sessions |-> NULL]
  /\ lastOp = [op |-> "init"]

(***************************************************************************)
(* Spec: the stock ledger.  Products come from the product form; rows of   *)
(* stock_movements are inserted, updated and deleted.                      *)
(***************************************************************************)
Next ==
  \/ \E name \in Names, typedStock \in StockInputs, fail \in BOOLEAN :
       SaveNewProduct(name, typedStock, fail)
  \/ \E p \in ProductIds, q \in Quantities : InsertMovement(p, q)
  \/ \E m \in BagToSet(stock_movements) : DeleteMovement(m)
  \/ \E m \in BagToSet(stock_movements), p \in ProductIds, q \in Quantities :
       UpdateMovement(m, p, q)

Spec == Init /\ [][Next]_vars

(***************************************************************************)
(* SpecForm: the product form beside a writer of stock movements.          *)
(***************************************************************************)
NextForm ==
  \/ \E name \in Names, typedStock \in StockInputs, fail \in BOOLEAN :
       SaveNewProduct(name, typedStock, fail)
  \/ \E p \in ProductIds : EditProduct(p)
  \/ CancelEdit
  \/ \E name \in Names, fail \in BOOLEAN : SaveEditedProduct(name, fail)
  \/ \E p \in ProductIds, q \in Quantities : InsertMovement(p, q)

SpecForm == Init /\ [][NextForm]_vars

(***************************************************************************)
(* SpecSales: products from the product form, and sales.                   *)
(***************************************************************************)
NextSales ==
  \/ \E name \in Names, typedStock \in StockInputs, fail \in BOOLEAN :
       SaveNewProduct(name, typedStock, fail)
  \/ \E number \in SaleNumbers, items \in SaleItemLists,
        failAt \in {"none", "sales", "sale_items", "stock_movements"} :
       handleCreateSale([sale_number |-> number, items |-> items], failAt)

SpecSales == Init /\ [][NextSales]_vars

(***************************************************************************)
(* SpecInvoices: invoice confirmations.                                    *)
(***************************************************************************)
NextInvoices ==
  \/ \E number \in InvoiceNumbers, items \in InvoiceItemLists :
       \E failAt \in FailPoints(Len(items)) :
         handleConfirmInvoice([invoiceNumber |-> number, items |-> items], failAt)
  \/ \E v \in DOMAIN invoices, failAt \in {"none", "invoice_items", "invoices"} :
       confirmDeleteInvoice(v, failAt)

SpecInvoices == Init /\ [][NextInvoices]_vars

(***************************************************************************)
(* SpecInventory: inventories handled from two sessions.                   *)
(***************************************************************************)
InventoryActions(s) ==
  \/ MountInventoryManager(s)
  \/ \E ids \in SUBSET ProductIds, failAt \in {"none", "inventories", "inventory_items"} :
       handleCreateInventory(s, ids, failAt)
  \/ \E i \in DOMAIN inventories, fail \in BOOLEAN : handleStartInventory(s, i, fail)
  \/ \E i \in DOMAIN inventories,
        failAt \in {"none", "inventories", "select_items", "stock_movements"} :
       handleCompleteInventory(s, i, failAt)
  \/ \E i \in DOMAIN inventories : SelectInventory(s, i)
  \/ CloseInventory(s)
  \/ \E p \in ProductIds, c \in StockInputs, fail \in BOOLEAN :
       handleUpdateCount(s, p, c, fail)
  \/ \E i \in DOMAIN inventories, fail \in BOOLEAN : handleExportPDF(s, i, fail)

NextInventory ==
  \/ \E name \in Names, typedStock \in StockInputs, fail \in BOOLEAN :
       SaveNewProduct(name, typedStock, fail)
  \/ \E s \in Sessions : InventoryActions(s)

SpecInventory == Init /\ [][NextInventory]_vars

(***************************************************************************)
(* SpecCount: one session takes inventories from creation to completion.   *)
(***************************************************************************)
NextCount ==
  \/ \E name \in Names, typedStock \in StockInputs, fail \in BOOLEAN :
       SaveNewProduct(name, typedStock, fail)
  \/ InventoryActions(1)

SpecCount == Init /\ [][NextCount]_vars

(***************************************************************************)
(* Properties of the stock ledger.                                         *)
(***************************************************************************)
\* Every product's current_stock is the signed sum of its movements.
LedgerConsistent ==
  \A p \in ProductIds : products[p].current_stock = LedgerSum(p)

\* C1: in every reachable state every product's current_stock equals the
\* signed sum of quantity over all stock_movements rows of that product.
C1_LedgerInvariant == LedgerConsistent

\* C2: inserting a movement with quantity q for product p increases
\* p.current_stock by exactly q, deleting it decreases p.current_stock by
\* exactly q, and the current_stock of every other product is unchanged.
C2_InsertDeleteAdjustStock ==
  [][ /\ lastOp'.op = "insert_movement" =>
           /\ stock_movements' = stock_movements (+) SetToBag({lastOp'.row})
           /\ DOMAIN products' = DOMAIN products
           /\ \A p \in ProductIds :
                products'[p].current_stock = products[p].current_stock +
                  (IF p = lastOp'.row.product_id THEN lastOp'.row.quantity ELSE 0)
      /\ lastOp'.op = "delete_movement" =>
           /\ stock_movements' = stock_movements (-) SetToBag({lastOp'.row})
           /\ DOMAIN products' = DOMAIN products
           /\ \A p \in ProductIds :
                products'[p].current_stock = products[p].current_stock -
                  (IF p = lastOp'.row.product_id THEN lastOp'.row.quantity ELSE 0)
    ]_vars

\* A movement with a nonzero quantity was deleted while a second product
\* exists whose stock has to stay as it is.
C2_Witness ==
  /\ lastOp.op = "delete_movement"
  /\ lastOp.row.quantity # 0
  /\ Len(products) = 2

\* C3: updating a movement keeps every product's current_stock equal to the
\* sum of its movements, also when the update reassigns the movement to a
\* different product_id.
C3_UpdateKeepsLedger ==
  [][ (lastOp'.op = "update_movement" /\ LedgerConsistent) => LedgerConsistent' ]_vars

\* C4: saving an edit of a product through the product form never overwrites
\* current_stock, so an edit saved after a movement for that product was
\* written leaves the trigger-computed stock intact.
C4_EditLeavesStock ==
  [][ lastOp'.op = "save_edited_product" =>
        \A p \in ProductIds :
          products'[p].current_stock = products[p].current_stock ]_vars

(***************************************************************************)
(* Properties of sale creation.                                            *)
(***************************************************************************)
\* The quantity the rows of a sale form enter for product p, in total.
RECURSIVE EnteredQuantity(_, _)
EnteredQuantity(items, p) ==
  IF items = << >> THEN 0
  ELSE (IF Head(items).product_id = p THEN Head(items).quantity ELSE 0)
         + EnteredQuantity(Tail(items), p)

\* C5: a successful sale creation writes, for each sale item with entered
\* quantity q, exactly one 'sale' movement for that item's product with
\* quantity -q, and the product's current_stock decreases by q (by the sum
\* of the q of its items when several items name the same product).
C5_SaleWritesNegativeMovements ==
  [][ (lastOp'.op = "create_sale" /\ lastOp'.failed = "none") =>
        LET items == lastOp'.items
            written == [i \in DOMAIN items |->
                          [product_id |-> items[i].product_id,
                           movement_type |-> "sale",
                           quantity |-> 0 - items[i].quantity,
                           reference_id |-> Some(lastOp'.sale_id),
                           reference_type |-> "sale_item"]]
        IN  /\ stock_movements' = stock_movements (+) SeqToBag(written)
            /\ DOMAIN products' = DOMAIN products
            /\ \A p \in ProductIds :
                 products'[p].current_stock =
                   products[p].current_stock - EnteredQuantity(items, p)
    ]_vars

\* A sale of two items, one of them with a positive quantity, went through.
C5_Witness ==
  /\ lastOp.op = "create_sale"
  /\ lastOp.failed = "none"
  /\ Len(lastOp.items) = 2
  /\ lastOp.items[1].quantity > 0
  /\ \E m \in BagToSet(stock_movements) : m.movement_type = "sale" /\ m.quantity < 0

\* C6: in every reachable state every 'purchase' movement has quantity > 0
\* and every 'sale' movement has quantity < 0.
C6_MovementSigns ==
  \A m \in BagToSet(stock_movements) :
    /\ m.movement_type = "purchase" => m.quantity > 0
    /\ m.movement_type = "sale" => m.quantity < 0

SaleItemCount(s) ==
  CopiesSum(sale_items, {r \in BagToSet(sale_items) : r.sale_id = s})

SaleMovementCount(s) ==
  CopiesSum(stock_movements,
            {m \in BagToSet(stock_movements) :
               /\ m.movement_type = "sale"
               /\ m.reference_type = "sale_item"
               /\ m.reference_id = Some(s)})

\* C7: sale creation is all-or-nothing: in every reachable state a sales row
\* exists if and only if its sale_items rows and one 'sale' movement per
\* item exist.
C7_SaleAllOrNothing ==
  /\ \A s \in DOMAIN sales :
       SaleItemCount(s) >= 1 /\ SaleMovementCount(s) = SaleItemCount(s)
  /\ \A r \in BagToSet(sale_items) : r.sale_id \in DOMAIN sales

(***************************************************************************)
(* Properties of the inventory workflow.                                   *)
(***************************************************************************)
\* C8: an inventory's stored status changes only by draft -> in_progress and
\* in_progress -> completed, under any interleaving of Start and Complete
\* requests, also from a view that still shows an older status.
C8_StatusMovesForward ==
  [][ \A i \in DOMAIN inventories :
        \/ inventories'[i].status = inventories[i].status
        \/ inventories[i].status = "draft" /\ inventories'[i].status = "in_progress"
        \/ inventories[i].status = "in_progress" /\ inventories'[i].status = "completed"
    ]_vars

\* C9: an inventory item's counted_quantity changes only while the stored
\* status of its inventory is in_progress.
C9_CountOnlyInProgress ==
  [][ \A it \in inventory_items :
        \/ it \in inventory_items'
        \/ inventories[it.inventory_id].status = "in_progress" ]_vars

InventoryMovementCount(i, p) ==
  CopiesSum(stock_movements,
            {m \in BagToSet(stock_movements) :
               /\ m.movement_type = "inventory"
               /\ m.reference_id = Some(i)
               /\ m.product_id = p})

\* C11: in every reachable state each inventory has contributed at most one
\* 'inventory' movement per inventory item, also when Complete is triggered
\* more than once for the same inventory.
C11_OneMovementPerItem ==
  \A it \in inventory_items :
    InventoryMovementCount(it.inventory_id, it.product_id) <= 1

(***************************************************************************)
(* SpecSnapshot: sales are recorded while a session with a loaded product  *)
(* list creates inventories.                                               *)
(***************************************************************************)
NextSnapshot ==
  \/ \E name \in Names, typedStock \in StockInputs, fail \in BOOLEAN :
       SaveNewProduct(name, typedStock, fail)
  \/ \E number \in SaleNumbers, items \in SaleItemLists,
        failAt \in {"none", "sales", "sale_items", "stock_movements"} :
       handleCreateSale([sale_number |-> number, items |-> items], failAt)
  \/ MountInventoryManager(1)
  \/ \E ids \in SUBSET ProductIds, failAt \in {"none", "inventories", "inventory_items"} :
       handleCreateInventory(1, ids, failAt)

SpecSnapshot == Init /\ [][NextSnapshot]_vars

\* C12: when an inventory is created, each of its items has as
\* expected_quantity the product's current_stock in the store at the moment
\* of creation, also when stock changed after the creating view loaded its
\* product list.
C12_ExpectedIsCurrentStock ==
  [][ (lastOp'.op = "create_inventory" /\ lastOp'.failed = "none") =>
        \A it \in inventory_items' \ inventory_items :
          it.expected_quantity = products[it.product_id].current_stock ]_vars

\* C13: in every reachable state every persisted inventory has at least one
\* inventory item (the inventory row and its items are created together or
\* not at all), and at most one item per product.
C13_InventoryHasItems ==
  \A i \in DOMAIN inventories :
    /\ ItemsOf(i) # {}
    /\ \A a, b \in ItemsOf(i) : a.product_id = b.product_id => a = b

(***************************************************************************)
(* Properties of invoice confirmation and deletion.                        *)
(***************************************************************************)
\* C14: invoice confirmation is atomic per line item: a product created for
\* a line item is never left in the store without its purchase movement,
\* also when the movement insert fails.
C14_NoOrphanProduct ==
  [][ lastOp'.op = "confirm_invoice" =>
        \A p \in DOMAIN products' \ DOMAIN products :
          \E m \in BagToSet(stock_movements') :
            m.product_id = p /\ m.movement_type = "purchase" ]_vars

\* The purchase movements a confirmation writes for items 1..n of the
\* invoice, each for the product of P that carries the item's name.
PurchaseRows(P, items, n, invoiceId) ==
  [j \in 1 .. n |->
     [product_id |-> CHOOSE p \in DOMAIN P : P[p].name = items[j].name,
      movement_type |-> "purchase", quantity |-> items[j].quantity,
      reference_id |-> Some(invoiceId), reference_type |-> "invoice_item"]]

\* The invoice_items rows of an invoice, counted with their copies.
InvoiceItemCount(v) ==
  CopiesSum(invoice_items, {r \in BagToSet(invoice_items) : r.invoice_id = v})

\* C15: when a confirmation fails while processing line item k, the invoice
\* row, all its invoice_items, and the products and purchase movements of
\* items 1..k-1 are persisted, no purchase movement exists for items k and
\* later, and nothing written before is undone.
C15_PartialConfirmationStays ==
  [][ (lastOp'.op = "confirm_invoice" /\ lastOp'.failed.item >= 1) =>
        LET k == lastOp'.failed.item
            id == lastOp'.invoice_id
            items == lastOp'.items
        IN  /\ Len(invoices') = Len(invoices) + 1
            /\ id \in DOMAIN invoices' /\ ~invoices'[id].deleted
            /\ invoice_items \sqsubseteq invoice_items'
            /\ BagCardinality(invoice_items') =
                 BagCardinality(invoice_items) + Len(items)
            /\ \A j \in 1 .. Len(items) :
                 \E r \in BagToSet(invoice_items') :
                   /\ r.invoice_id = id /\ r.name = items[j].name
                   /\ r.quantity = items[j].quantity
            /\ \A p \in DOMAIN products :
                 p \in DOMAIN products' /\ products'[p].name = products[p].name
            /\ \A j \in 1 .. (k - 1) :
                 \E p \in DOMAIN products' : products'[p].name = items[j].name
            /\ stock_movements' =
                 stock_movements (+) SeqToBag(PurchaseRows(products', items, k - 1, id))
    ]_vars

\* A confirmation failed at its second line item after the first item's
\* purchase movement was written.
C15_Witness ==
  /\ lastOp.op = "confirm_invoice"
  /\ lastOp.failed.item = 2
  /\ lastOp.invoice_id \in InvoiceIds
  /\ InvoiceItemCount(lastOp.invoice_id) = 2
  /\ \E m \in BagToSet(stock_movements) :
       /\ m.movement_type = "purchase"
       /\ m.reference_id = Some(lastOp.invoice_id)
       /\ CopiesIn(m, stock_movements) = 1

\* The quantity the line items enter for a product name, in total.
RECURSIVE PurchasedQuantity(_, _)
PurchasedQuantity(items, name) ==
  IF items = << >> THEN 0
  ELSE (IF Head(items).name = name THEN Head(items).quantity ELSE 0)
         + PurchasedQuantity(Tail(items), name)

\* C16: after a successful confirmation, each line item has exactly one
\* 'purchase' movement with the item's quantity for the product whose name
\* equals the item's name exactly; that product is created with stock 0
\* when no product of that name existed; items of the same name post to the
\* same product.
C16_PurchasePostsByExactName ==
  [][ (lastOp'.op = "confirm_invoice" /\ lastOp'.failed.step = "none") =>
        LET id == lastOp'.invoice_id
            items == lastOp'.items
            names == {items[j].name : j \in DOMAIN items}
            known == {products[p].name : p \in DOMAIN products}
            before(p) == IF p \in DOMAIN products THEN products[p].current_stock ELSE 0
        IN  /\ \A p \in DOMAIN products :
                 p \in DOMAIN products' /\ products'[p].name = products[p].name
            /\ Len(products') = Len(products) + Cardinality(names \ known)
            /\ \A n \in names :
                 Cardinality({p \in DOMAIN products' : products'[p].name = n}) = 1
            /\ stock_movements' =
                 stock_movements (+) SeqToBag(PurchaseRows(products', items, Len(items), id))
            /\ \A p \in DOMAIN products' :
                 products'[p].current_stock =
                   before(p) + PurchasedQuantity(items, products'[p].name)
    ]_vars

\* A confirmation of two lines named "bolt" and "Bolt" went through and
\* left one product for each name, each with its own purchase movement.
C16_Witness ==
  /\ lastOp.op = "confirm_invoice"
  /\ lastOp.failed.step = "none"
  /\ Len(lastOp.items) = 2
  /\ lastOp.items[1].name = "bolt" /\ lastOp.items[2].name = "Bolt"
  /\ lastOp.items[1].quantity = 2
  /\ \E p, q \in DOMAIN products :
       /\ products[p].name = "bolt" /\ products[q].name = "Bolt"
       /\ \E m, n \in BagToSet(stock_movements) :
            /\ m.product_id = p /\ n.product_id = q
            /\ m.reference_id = Some(lastOp.invoice_id)
            /\ n.reference_id = Some(lastOp.invoice_id)

\* C17: after an invoice confirmation writes a purchase movement for a line
\* item, the product's last_purchase_price equals the net_price of the last
\* line item written for that product.
C17_LastPurchasePrice ==
  [][ (lastOp'.op = "confirm_invoice" /\ lastOp'.failed.step # "invoices"
         /\ lastOp'.failed.step # "invoice_items") =>
        LET items == lastOp'.items
            written == IF lastOp'.failed.item = 0 THEN Len(items)
                       ELSE lastOp'.failed.item - 1
        IN  \A j \in 1 .. written :
              (\A i \in (j + 1) .. written : items[i].name # items[j].name) =>
                \A p \in DOMAIN products' :
                  products'[p].name = items[j].name =>
                    products'[p].last_purchase_price = Some(items[j].net_price)
    ]_vars

\* C18: after confirmDeleteInvoice has deleted an invoice, none of its items
\* and no purchase movement referencing it remains, and each product's
\* current_stock is lower by the quantity that invoice had purchased.
C18_DeleteReversesPurchases ==
  [][ (lastOp'.op = "delete_invoice" /\ lastOp'.invoice_deleted) =>
        LET id == lastOp'.invoice_id
            purchased == {m \in BagToSet(stock_movements) :
                            /\ m.movement_type = "purchase"
                            /\ m.reference_type = "invoice_item"
                            /\ m.reference_id = Some(id)}
        IN  /\ \A r \in BagToSet(invoice_items') : r.invoice_id # id
            /\ \A m \in purchased : ~BagIn(m, stock_movements')
            /\ \A p \in DOMAIN products :
                 products'[p].current_stock =
                   products[p].current_stock
                     - BagQuantity(stock_movements,
                                   {m \in purchased : m.product_id = p})
    ]_vars

(***************************************************************************)
(* Dates.  A string of decimal digits is its length and its value; a date  *)
(* token is three digit strings and the separator between them, which is   *)
(* what the patterns of extractDate match and what an ISO date is.         *)
(***************************************************************************)
DigitString(len, val) == [len |-> len, val |-> val]
DateToken(sep, p1, p2, p3) == [sep |-> sep, parts |-> << p1, p2, p3 >>]

\* `${year}-${month}-${day}`
IsoString(year, month, day) == DateToken("-", year, month, day)

\* new Date().toISOString().split('T')[0]: the day the code runs.
Today == IsoString(DigitString(4, 2026), DigitString(2, 11), DigitString(2, 1))

\* Tokens of the text and dates of an AI answer: years, months and days as
\* written, valid ones and invalid ones, with one or two digits.
YearStrings == {DigitString(4, 2024), DigitString(4, 2023), DigitString(4, 50)}
MonthStrings == {DigitString(2, 1), DigitString(1, 1), DigitString(2, 2), DigitString(2, 13)}
DayStrings == {DigitString(2, 15), DigitString(1, 5), DigitString(2, 29), DigitString(2, 31)}
Separators == {".", "-", "/"}

\* [0-9]{1,2}[.\-\/][0-9]{1,2}[.\-\/][0-9]{4}
DayFirstTokens ==
  {DateToken(sep, d, m, y) :
     sep \in Separators, d \in DayStrings, m \in MonthStrings, y \in YearStrings}
\* [0-9]{4}[.\-\/][0-9]{1,2}[.\-\/][0-9]{1,2}
YearFirstTokens ==
  {DateToken(sep, y, m, d) :
     sep \in Separators, d \in DayStrings, m \in MonthStrings, y \in YearStrings}
DateTokens == DayFirstTokens \cup YearFirstTokens

\* The Gregorian calendar, as Date keeps it.
IsLeapYear(y) == (y % 4 = 0 /\ y % 100 # 0) \/ y % 400 = 0
DaysInMonth(y, monthIndex) ==
  IF monthIndex = 1 THEN (IF IsLeapYear(y) THEN 29 ELSE 28)
  ELSE IF monthIndex \in {3, 5, 8, 10} THEN 30 ELSE 31

\* Date's carry of a day outside its month into the neighbouring months.
RECURSIVE CarryDay(_, _, _)
CarryDay(y, monthIndex, day) ==
  IF day < 1
  THEN LET py == IF monthIndex = 0 THEN y - 1 ELSE y
           pm == IF monthIndex = 0 THEN 11 ELSE monthIndex - 1
       IN  CarryDay(py, pm, day + DaysInMonth(py, pm))
  ELSE IF day > DaysInMonth(y, monthIndex)
  THEN LET ny == IF monthIndex = 11 THEN y + 1 ELSE y
           nm == IF monthIndex = 11 THEN 0 ELSE monthIndex + 1
       IN  CarryDay(ny, nm, day - DaysInMonth(y, monthIndex))
  ELSE [getFullYear |-> y, getMonth |-> monthIndex, getDate |-> day]

\* new Date(year, monthIndex, day): a year of 0..99 means 1900 + year, a
\* month index outside 0..11 and a day outside the month carry over.
NewDate(year, monthIndex, day) ==
  LET y0 == IF year >= 0 /\ year <= 99 THEN 1900 + year ELSE year
  IN  CarryDay(y0 + (monthIndex \div 12), monthIndex % 12, day)

\* s.padStart(2, '0')
padStart2(s) == [len |-> IF s.len < 2 THEN 2 ELSE s.len, val |-> s.val]

\* InvoicePDFParser.formatDateToISO
formatDateToISO(dateStr) ==
  LET parts == dateStr.parts
      yearFirst == parts[1].len = 4
      year == IF yearFirst THEN parts[1] ELSE parts[3]
      month == padStart2(parts[2])
      day == padStart2(IF yearFirst THEN parts[3] ELSE parts[1])
      date == NewDate(year.val, month.val - 1, day.val)
  IN  IF Len(parts) # 3 THEN Today
      ELSE IF \/ date.getFullYear # year.val
              \/ date.getMonth # month.val - 1
              \/ date.getDate # day.val
      THEN Today
      ELSE IsoString(year, month, day)

\* /^\d{4}-\d{2}-\d{2}$/.test(dateStr)
IsIsoShaped(dateStr) ==
  /\ dateStr.sep = "-"
  /\ dateStr.parts[1].len = 4 /\ dateStr.parts[2].len = 2 /\ dateStr.parts[3].len = 2

\* date.toISOString().split('T')[0] of a Date that is not NaN.
toISODate(date) ==
  IsoString(DigitString(4, date.getFullYear), DigitString(2, date.getMonth + 1),
            DigitString(2, date.getDate))

\* What new Date(dateStr) can be for a string that is not in the ISO form:
\* the language leaves the parse to the engine, which gives NaN (NULL) or a
\* date it reads out of the three numbers, month first or day first or
\* year first.
DateParseOutcomes(dateStr) ==
  LET n == [i \in 1 .. 3 |-> dateStr.parts[i].val]
      readings == {<< n[3], n[1], n[2] >>, << n[3], n[2], n[1] >>, << n[1], n[2], n[3] >>}
      valid == {r \in readings :
                  /\ r[1] >= 100 /\ r[2] \in 1 .. 12
                  /\ r[3] >= 1 /\ r[3] <= DaysInMonth(r[1], r[2] - 1)}
  IN  {NULL} \cup {Some(NewDate(r[1], r[2] - 1, r[3])) : r \in valid}

\* AIInvoiceParser.validateDate; dateStr is NULL for a missing or empty
\* date, parsed is what new Date(dateStr) gives.
validateDate(dateStr, parsed) ==
  IF IsNull(dateStr) THEN Today
  ELSE IF IsIsoShaped(Val(dateStr)) THEN Val(dateStr)
  ELSE IF IsNull(parsed) THEN Today
  ELSE toISODate(Val(parsed))

(***************************************************************************)
(* Invoice parsing: InvoicePDFParser.parsePDF and AIInvoiceParser.  Money  *)
(* is counted in grosze (0.01 zl); of an item only total_net and           *)
(* total_gross are kept, the columns the totals are summed from.           *)
(***************************************************************************)
MaxParsedItems == 2

\* Number(x) || d: a missing or non-numeric field gives NaN, and NaN and 0
\* are falsy.
NumberOr(x, d) == IF IsNull(x) \/ Val(x) = 0 THEN d ELSE Val(x)

\* The items of the JSON the model answers with: each field present or not.
RawItems == [total_net : {NULL, Some(10000)}, total_gross : {NULL, Some(12300)}]
RawItemLists == UNION {[1 .. n -> RawItems] : n \in 0 .. MaxParsedItems}

\* What the AI request ends with.  callGroqAPI throws: "no_api_key",
\* "network_error", "http_error" (a non-2xx response).  parseAIResponse
\* throws: "no_json" (no {...} in the answer), "bad_json" (JSON.parse
\* throws), "wrong_shape" (items is not an array, validateItems throws).
\* "json": the fields of the parsed object, each present or not.
\* invoiceNumber, date and vendor of a JSON answer: all missing, or all
\* there.
AIHeaders ==
  {[invoiceNumber |-> NULL, date |-> NULL, vendor |-> NULL],
   [invoiceNumber |-> Some("FV/1"),
    date |-> Some(IsoString(DigitString(4, 2024), DigitString(2, 2),
                            DigitString(2, 31))),
    vendor |-> Some("ACME")]}

CallFailures == {"no_api_key", "network_error", "http_error"}
Unreadable == {"no_json", "bad_json", "wrong_shape"}
AIOutcomes ==
  {[kind |-> k, invoiceNumber |-> NULL, date |-> NULL, vendor |-> NULL,
    items |-> NULL, totalNet |-> NULL, totalGross |-> NULL] :
     k \in CallFailures \cup Unreadable}
  \cup {[kind |-> "json", invoiceNumber |-> h.invoiceNumber, date |-> h.date,
          vendor |-> h.vendor, items |-> items, totalNet |-> totalNet,
          totalGross |-> totalGross] :
           h \in AIHeaders,
           items \in {NULL} \cup {Some(l) : l \in RawItemLists},
           totalNet \in {NULL, Some(10000), Some(20000)},
           totalGross \in {NULL, Some(12300)}}

\* A call that returned v / a call that threw.
Returned(v) == [threw |-> FALSE, value |-> v]
Threw == [threw |-> TRUE, value |-> NULL]

\* The item both extractItems put in when they found none.
PlaceholderItem == [total_net |-> 10000, total_gross |-> 12300]

\* simulatePDFText: the text parsePDF reads, whatever the buffer holds, by
\* what the extractors find in it.  lines: line by line, NULL when no
\* pattern of extractItems matches the line and else the quantity, net
\* price and gross price the first pattern captures.  firstDate: the first
\* match of the date patterns ("15.01.2024").  numberMatch: the first match
\* of the invoice number patterns ("FAKTURA VAT" gives "VAT").  vendorLine:
\* the first line extractVendor accepts.
simulatePDFText ==
  [lines |->
     << NULL, NULL,
        Some([quantity |-> 1, net_price |-> 250000, gross_price |-> 307500]),
        Some([quantity |-> 2, net_price |-> 4500, gross_price |-> 5535]),
        Some([quantity |-> 1, net_price |-> 20000, gross_price |-> 24600]),
        NULL >>,
   firstDate |-> Some(DateToken(".", DigitString(2, 15), DigitString(2, 1),
                                DigitString(4, 2024))),
   numberMatch |-> Some("VAT"),
   vendorLine |-> Some("ABC Company Sp. z o.o.")]

\* x || d for a string field
StringOr(x, d) == IF IsNull(x) THEN d ELSE Val(x)

\* AIInvoiceParser.validateItems
validateItems(items) ==
  [i \in DOMAIN items |->
     [total_net |-> NumberOr(items[i].total_net, 0),
      total_gross |-> NumberOr(items[i].total_gross, 0)]]

\* A faulty parseAIResponse whose catch logs the error and returns nothing.
parseAIResponse_swallow(aiResponse, parsed) ==
  IF aiResponse.kind \in Unreadable THEN Returned(NULL)
  ELSE Returned([invoiceNumber |-> StringOr(aiResponse.invoiceNumber, "UNKNOWN"),
                 date |-> validateDate(aiResponse.date, parsed),
                 vendor |-> StringOr(aiResponse.vendor, "UNKNOWN VENDOR"),
                 items |-> validateItems(IF IsNull(aiResponse.items) THEN << >>
                                         ELSE Val(aiResponse.items)),
                 totalNet |-> NumberOr(aiResponse.totalNet, 0),
                 totalGross |-> NumberOr(aiResponse.totalGross, 0)])

\* AIInvoiceParser.parseAIResponse; parsed is what new Date(dateStr) gives
\* inside validateDate.
parseAIResponse(aiResponse, parsed) ==
  IF aiResponse.kind \in Unreadable THEN Threw
  ELSE Returned([invoiceNumber |-> StringOr(aiResponse.invoiceNumber, "UNKNOWN"),
                 date |-> validateDate(aiResponse.date, parsed),
                 vendor |-> StringOr(aiResponse.vendor, "UNKNOWN VENDOR"),
                 items |-> validateItems(IF IsNull(aiResponse.items) THEN << >>
                                         ELSE Val(aiResponse.items)),
                 totalNet |-> NumberOr(aiResponse.totalNet, 0),
                 totalGross |-> NumberOr(aiResponse.totalGross, 0)])

\* extractInvoiceNumber and extractVendor, the same in both parsers
extractInvoiceNumber(text) == StringOr(text.numberMatch, "UNKNOWN")
extractVendor(text) == StringOr(text.vendorLine, "UNKNOWN VENDOR")

\* AIInvoiceParser.extractDate
AIextractDate(text, parsed) ==
  IF IsNull(text.firstDate) THEN Today ELSE validateDate(text.firstDate, parsed)

\* InvoicePDFParser.extractDate
extractDate(text) ==
  IF IsNull(text.firstDate) THEN Today ELSE formatDateToISO(Val(text.firstDate))

\* AIInvoiceParser.extractItems
AIextractItems(text) == << PlaceholderItem >>

\* AIInvoiceParser.fallbackParsing
fallbackParsing(pdfText, parsed) ==
  [invoiceNumber |-> extractInvoiceNumber(pdfText),
   date |-> AIextractDate(pdfText, parsed),
   vendor |-> extractVendor(pdfText),
   items |-> AIextractItems(pdfText), totalNet |-> 0, totalGross |-> 0]

\* AIInvoiceParser.parseInvoiceWithAI: try { callGroqAPI; parseAIResponse }
\* catch { return fallbackParsing(pdfText) }
parseInvoiceWithAI(pdfText, ai, parsed) ==
  IF ai.kind \in CallFailures THEN Returned(fallbackParsing(pdfText, parsed))
  ELSE LET r == parseAIResponse(ai, parsed)
       IN  IF r.threw THEN Returned(fallbackParsing(pdfText, parsed)) ELSE r

\* InvoicePDFParser.extractItems
RECURSIVE MatchedItems(_)
MatchedItems(lines) ==
  IF lines = << >> THEN << >>
  ELSE (IF IsNull(Head(lines)) THEN << >>
        ELSE LET m == Val(Head(lines))
             IN  << [total_net |-> m.quantity * m.net_price,
                     total_gross |-> m.quantity * m.gross_price] >>)
         \o MatchedItems(Tail(lines))

extractItems(text) ==
  LET items == MatchedItems(text.lines)
  IN  IF Len(items) = 0 THEN << PlaceholderItem >> ELSE items

\* items.reduce((sum, item) => sum + item.total_net, 0), and for total_gross
RECURSIVE SumNet(_)
SumNet(items) == IF items = << >> THEN 0 ELSE Head(items).total_net + SumNet(Tail(items))

RECURSIVE SumGross(_)
SumGross(items) ==
  IF items = << >> THEN 0 ELSE Head(items).total_gross + SumGross(Tail(items))

\* The result of InvoicePDFParser's own extraction: the catch of parsePDF.
HeuristicResult(text) ==
  LET items == extractItems(text)
  IN  [invoiceNumber |-> extractInvoiceNumber(text), date |-> extractDate(text),
       vendor |-> extractVendor(text), items |-> items,
       totalNet |-> SumNet(items), totalGross |-> SumGross(items)]

\* InvoicePDFParser.parsePDF: try { return await parseInvoiceWithAI(text) }
\* catch { the heuristic extraction }
parsePDF(ai, parsed) ==
  LET text == simulatePDFText
      aiResult == parseInvoiceWithAI(text, ai, parsed)
  IN  IF ~aiResult.threw THEN Returned(aiResult.value)
      ELSE Returned(HeuristicResult(text))

\* The string validateDate parses with new Date(...) during parsePDF: the
\* date of the AI answer, or the first date of the text on the fallback.
ParsedDateString(ai) ==
  LET dateStr == IF ai.kind = "json" THEN ai.date ELSE simulatePDFText.firstDate
  IN  IF IsNull(dateStr) \/ IsIsoShaped(Val(dateStr)) THEN NULL ELSE dateStr

\* handleFileSelect: try { data = await InvoicePDFParser.parsePDF(buffer) }
\* catch { setError(...) }; what parsePDF returned or that it threw is
\* recorded.
ParseInvoice(ai, parsed) ==
  /\ LET r == parsePDF(ai, parsed)
     IN  lastOp' = [op |-> "parse_pdf", ai |-> ai, threw |-> r.threw,
                    result |-> r.value]
  /\ UNCHANGED << store, views >>

NextParse ==
  \E ai \in AIOutcomes :
    \E parsed \in IF IsNull(ParsedDateString(ai)) THEN {NULL}
                  ELSE DateParseOutcomes(Val(ParsedDateString(ai))) :
      ParseInvoice(ai, parsed)

SpecParse == Init /\ [][NextParse]_vars

\* |a - b| <= 0.01 zl
WithinTolerance(a, b) == a - b <= 1 /\ b - a <= 1

\* C19: every result parsePDF returns has totalNet equal to the sum of its
\* items' total_net and totalGross equal to the sum of their total_gross,
\* within 0.01.
C19_TotalsMatchItems ==
  lastOp.op = "parse_pdf" =>
    /\ WithinTolerance(lastOp.result.totalNet, SumNet(lastOp.result.items))
    /\ WithinTolerance(lastOp.result.totalGross, SumGross(lastOp.result.items))

\* C20: every result parsePDF returns, for every AI outcome, has a
\* non-empty item list.
C20_ItemsNeverEmpty ==
  lastOp.op = "parse_pdf" => Len(lastOp.result.items) >= 1

\* InvoicePDFParser.extractDate on a text whose first date token is token.
ExtractDate(token) ==
  /\ lastOp' = [op |-> "format_date", token |-> token,
                result |-> formatDateToISO(token)]
  /\ UNCHANGED << store, views >>

\* AIInvoiceParser.validateDate on the date of an AI answer, or on the
\* first date token of the text (AIInvoiceParser.extractDate).
ValidateDate(dateStr, parsed) ==
  /\ lastOp' = [op |-> "validate_date", token |-> dateStr,
                result |-> validateDate(dateStr, parsed)]
  /\ UNCHANGED << store, views >>

NextDates ==
  \/ \E token \in DateTokens : ExtractDate(token)
  \/ \E token \in DateTokens : \E parsed \in DateParseOutcomes(token) :
       ValidateDate(Some(token), parsed)
  \/ ValidateDate(NULL, NULL)

SpecDates == Init /\ [][NextDates]_vars

\* An ISO string that names a day of the calendar.
IsRealIsoDate(iso) ==
  /\ IsIsoShaped(iso)
  /\ iso.parts[2].val \in 1 .. 12
  /\ iso.parts[3].val >= 1
  /\ iso.parts[3].val <= DaysInMonth(iso.parts[1].val, iso.parts[2].val - 1)

\* The date a token names, read day first or year first by the place of
\* its four-digit part, in ISO form.
TokenAsIso(token) ==
  LET yearFirst == token.parts[1].len = 4
      year == IF yearFirst THEN token.parts[1] ELSE token.parts[3]
      day == IF yearFirst THEN token.parts[3] ELSE token.parts[1]
  IN  IsoString(year, DigitString(2, token.parts[2].val), DigitString(2, day.val))

\* C24: every date either extraction path produces is a real calendar date
\* in YYYY-MM-DD form: a day-first or year-first token of a real date gives
\* that date, and a token that is no real calendar date gives the current
\* date.
C24_DatesAreRealCalendarDates ==
  (lastOp.op \in {"format_date", "validate_date"}) =>
    /\ IsRealIsoDate(lastOp.result)
    /\ (lastOp.op = "validate_date" /\ IsNull(lastOp.token)) => lastOp.result = Today
    /\ (lastOp.op = "format_date" \/ ~IsNull(lastOp.token)) =>
         LET token == IF lastOp.op = "format_date" THEN lastOp.token
                      ELSE Val(lastOp.token)
         IN  lastOp.result = IF IsRealIsoDate(TokenAsIso(token))
                             THEN TokenAsIso(token) ELSE Today

\* C25: date normalization is idempotent: the ISO string of a valid calendar
\* date is returned unchanged by formatDateToISO and by validateDate, and
\* normalizing the output of a normalization returns it unchanged.
C25_NormalizationIdempotent ==
  /\ lastOp.op = "format_date" =>
       /\ formatDateToISO(lastOp.result) = lastOp.result
       /\ IsRealIsoDate(lastOp.token) => lastOp.result = lastOp.token
  /\ (lastOp.op = "validate_date" /\ ~IsNull(lastOp.token)) =>
       /\ \A parsed \in DateParseOutcomes(lastOp.result) :
            validateDate(Some(lastOp.result), parsed) = lastOp.result
       /\ IsRealIsoDate(Val(lastOp.token)) => lastOp.result = Val(lastOp.token)

(***************************************************************************)
(* C21: parsePDF never fails because of the AI path.  Whatever the AI      *)
(* request ends with (no API key, a network error, a non-2xx response, an  *)
(* answer without JSON, JSON that does not parse, JSON of the wrong        *)
(* shape), the call does not throw and resolves with a ParsedInvoiceData:  *)
(* invoiceNumber, date, vendor, items, totalNet and totalGross.            *)
(***************************************************************************)
ParsedInvoiceDataFields ==
  {"invoiceNumber", "date", "vendor", "items", "totalNet", "totalGross"}

C21_ParseNeverFailsOnAI ==
  lastOp.op = "parse_pdf" =>
    /\ ~lastOp.threw
    /\ ~IsNull(lastOp.result)
    /\ DOMAIN lastOp.result = ParsedInvoiceDataFields

\* parsePDF has returned after an AI answer that could not be read.
C21_Witness ==
  /\ lastOp.op = "parse_pdf"
  /\ lastOp.ai.kind \in Unreadable
  /\ ~lastOp.threw

(***************************************************************************)
(* C22: when the AI path fails, the result of parsePDF is the result of    *)
(* the heuristic extraction of the same text: one item per matched line    *)
(* (the placeholder only when no line matches) and totals that are the     *)
(* sums of the items' totals.                                              *)
(***************************************************************************)
C22_FallbackIsHeuristic ==
  (lastOp.op = "parse_pdf" /\ lastOp.ai.kind \in CallFailures \cup Unreadable) =>
    LET items == extractItems(simulatePDFText)
    IN  /\ lastOp.result.items = items
        /\ lastOp.result.totalNet = SumNet(items)
        /\ lastOp.result.totalGross = SumGross(items)


(***************************************************************************)
(* The invoice editor: InvoiceEditor and its state editedData, of which    *)
(* the items (quantity, net_price, gross_price, total_net, total_gross)    *)
(* and the two totals are kept.  Money is counted in grosze.               *)
(***************************************************************************)
MaxEditorItems == 2

\* The item addItem appends.
NewEditorItem ==
  [quantity |-> 1, net_price |-> 0, gross_price |-> 0,
   total_net |-> 0, total_gross |-> 0]

\* Items of the data the editor is opened with: the placeholder of the
\* parsers and a line of the invoice.
EditorOpenItems ==
  {[quantity |-> 1, net_price |-> 10000, gross_price |-> 12300,
    total_net |-> 10000, total_gross |-> 12300],
   [quantity |-> 2, net_price |-> 4500, gross_price |-> 5535,
    total_net |-> 9000, total_gross |-> 11070]}

\* data: what parsePDF returned, totals as the parser set them.
EditorInputs ==
  [items : UNION {[1 .. n -> EditorOpenItems] : n \in 0 .. MaxEditorItems},
   totalNet : {0, 10000},
   totalGross : {0, 12300}]

\* The values the inputs of an item row give handleItemChange; "name"
\* stands for name, unit and percentage, which no total reads.
EditorFieldValues ==
  [quantity |-> {0, 2}, net_price |-> {0, 4500}, gross_price |-> {0, 5535},
   name |-> {0}]

\* useState({ ...data }) when the preview shows the editor
OpenEditor(data) ==
  /\ IsNull(editedData)
  /\ editedData' = Some(data)
  /\ lastOp' = [op |-> "editor_open"]
  /\ UNCHANGED << store, editingProduct, imViews, confirming >>

\* recalculateTotals: setEditedData(prev => ({...prev, items, totalNet,
\* totalGross}))
recalculateTotals(prev, items) ==
  [prev EXCEPT !.items = items,
               !.totalNet = SumNet(items),
               !.totalGross = SumGross(items)]

\* handleItemChange
handleItemChange(index, field, value) ==
  /\ ~IsNull(editedData)
  /\ index \in DOMAIN Val(editedData).items
  /\ LET old == Val(editedData).items[index]
         changed == IF field = "name" THEN old ELSE [old EXCEPT ![field] = value]
         item == [changed EXCEPT
                    !.total_net = changed.quantity * changed.net_price,
                    !.total_gross = changed.quantity * changed.gross_price]
         updatedItems == [Val(editedData).items EXCEPT ![index] = item]
         set == [Val(editedData) EXCEPT !.items = updatedItems]
     IN  editedData' = Some(recalculateTotals(set, updatedItems))
  /\ lastOp' = [op |-> "editor_edit"]
  /\ UNCHANGED << store, editingProduct, imViews, confirming >>

\* addItem
addItem ==
  /\ ~IsNull(editedData)
  /\ Len(Val(editedData).items) < MaxEditorItems
  /\ editedData' = Some([Val(editedData) EXCEPT
                           !.items = Append(Val(editedData).items, NewEditorItem)])
  /\ lastOp' = [op |-> "editor_add"]
  /\ UNCHANGED << store, editingProduct, imViews, confirming >>

\* removeItem
removeItem(index) ==
  /\ ~IsNull(editedData)
  /\ index \in DOMAIN Val(editedData).items
  /\ LET items == Val(editedData).items
         updatedItems == [i \in 1 .. Len(items) - 1 |->
                            IF i < index THEN items[i] ELSE items[i + 1]]
         set == [Val(editedData) EXCEPT !.items = updatedItems]
     IN  editedData' = Some(recalculateTotals(set, updatedItems))
  /\ lastOp' = [op |-> "editor_remove"]
  /\ UNCHANGED << store, editingProduct, imViews, confirming >>

\* handleSave: onSave(editedData), and onCancel; the editor is closed.
CloseEditor ==
  /\ ~IsNull(editedData)
  /\ editedData' = NULL
  /\ lastOp' = [op |-> "editor_close"]
  /\ UNCHANGED << store, editingProduct, imViews, confirming >>

NextEditor ==
  \/ \E data \in EditorInputs : OpenEditor(data)
  \/ \E index \in 1 .. MaxEditorItems :
       \E field \in DOMAIN EditorFieldValues :
         \E value \in EditorFieldValues[field] :
           handleItemChange(index, field, value)
  \/ addItem
  \/ \E index \in 1 .. MaxEditorItems : removeItem(index)
  \/ CloseEditor

SpecEditor == Init /\ [][NextEditor]_vars

(***************************************************************************)
(* C23: in the invoice editor, after every add, remove or edit of an item  *)
(* totalNet is the sum of total_net and totalGross the sum of total_gross  *)
(* over the current items, whatever totals the editor was opened with.     *)
(***************************************************************************)
C23_EditorTotalsAreSums ==
  lastOp.op \in {"editor_add", "editor_remove", "editor_edit"} =>
    /\ Val(editedData).totalNet = SumNet(Val(editedData).items)
    /\ Val(editedData).totalGross = SumGross(Val(editedData).items)

(***************************************************************************)
(* C26: the three count states of an inventory item stay distinct through  *)
(* count, completion and export.  A count of 0 is stored as 0 and not as   *)
(* null; on completion an item counted as 0 yields a movement of           *)
(* -expected_quantity when that is not 0, and a never-counted item yields  *)
(* no movement; the report shows a counted item as counted (0 for a count  *)
(* of 0) and a never-counted item as 'Nie policzono'.                      *)
(***************************************************************************)
InventoryMovementsOf(M, inventoryId, product_id) ==
  {m \in BagToSet(M) : /\ m.movement_type = "inventory"
                       /\ m.reference_id = Some(inventoryId)
                       /\ m.product_id = product_id}

RaceInvoiceNumbers == {"FV/1", "FV/2"}

\* parsedData.items of the confirmations that run side by side.
RaceItemLists ==
  UNION {[1 .. n -> [name : ItemNames, quantity : {2}, net_price : {5}]] :
           n \in 1 .. MaxInvoiceItems}

\* catch (err) { console.error(...) } finally { setIsProcessing(false) }
ConfirmOver(c) == confirming' = [confirming EXCEPT ![c] = NULL]

ConfirmAt(c, pc) == ~IsNull(confirming[c]) /\ Val(confirming[c]).pc = pc

\* from('invoices').insert([{invoice_number, ...}]).select().single();
\* if (invoiceError) throw invoiceError
ConfirmInsertInvoice(c, parsedData, fail) ==
  LET taken == InvoiceNumberTaken(parsedData.invoiceNumber)
      invoiceError == fail \/ taken
  IN  /\ IsNull(confirming[c])
      /\ Len(invoices) < MaxInvoices
      /\ invoices' = IF invoiceError THEN invoices
                     ELSE Append(invoices, [invoice_number |-> parsedData.invoiceNumber,
                                            deleted |-> FALSE])
      /\ confirming' =
           IF invoiceError THEN confirming
           ELSE [confirming EXCEPT
                   ![c] = Some([parsedData |-> parsedData,
                                invoice_id |-> Len(invoices) + 1,
                                k |-> 1, pc |-> "invoice_items", productId |-> 0])]
      /\ lastOp' = [op |-> "confirm_insert_invoice", session |-> c,
                    invoice_number |-> parsedData.invoiceNumber,
                    taken |-> taken, failed |-> invoiceError]
      /\ UNCHANGED << products, stock_movements, sales, sale_items, invoice_items,
                      inventories, inventory_items, editingProduct, editedData,
                      imViews >>

\* from('invoice_items').insert(items); if (itemsError) throw itemsError
ConfirmInsertItems(c, fail) ==
  /\ ConfirmAt(c, "invoice_items")
  /\ LET st == Val(confirming[c])
         items == [i \in DOMAIN st.parsedData.items |->
                     [id |-> InvoiceItemId(st.invoice_id, i),
                      invoice_id |-> st.invoice_id,
                      name |-> st.parsedData.items[i].name,
                      quantity |-> st.parsedData.items[i].quantity,
                      net_price |-> st.parsedData.items[i].net_price]]
     IN  /\ invoice_items' = IF fail THEN invoice_items
                             ELSE invoice_items (+) SeqToBag(items)
         /\ IF fail THEN ConfirmOver(c)
            ELSE confirming' = [confirming EXCEPT
                                  ![c] = Some([st EXCEPT !.pc = "select_product"])]
         /\ lastOp' = [op |-> "confirm_insert_items", session |-> c, failed |-> fail]
  /\ UNCHANGED << products, stock_movements, sales, sale_items, invoices,
                  inventories, inventory_items, editingProduct, editedData,
                  imViews >>

\* from('products').select('*').eq('name', item.name).single();
\* if (productError && productError.code !== 'PGRST116') throw productError
ConfirmSelectProduct(c, fail) ==
  /\ ConfirmAt(c, "select_product")
  /\ LET st == Val(confirming[c])
         item == st.parsedData.items[st.k]
         existing == FindProduct(products, item.name)
     IN  /\ IF fail THEN ConfirmOver(c)
            ELSE confirming' =
                   [confirming EXCEPT
                      ![c] = Some(IF existing = {}
                                  THEN [st EXCEPT !.pc = "insert_product"]
                                  ELSE [st EXCEPT !.pc = "insert_movement",
                                                  !.productId = CHOOSE p \in existing : TRUE])]
         /\ lastOp' = [op |-> "confirm_select_product", session |-> c,
                       failed |-> fail]
  /\ UNCHANGED << store, editingProduct, editedData, imViews >>

\* if (!existingProduct): from('products').insert([{name, current_stock: 0,
\* last_purchase_price: item.net_price, ...}]).select().single();
\* if (createError) throw createError
ConfirmInsertProduct(c, fail) ==
  /\ ConfirmAt(c, "insert_product")
  /\ LET st == Val(confirming[c])
         item == st.parsedData.items[st.k]
         taken == NameTaken(item.name)
         createError == fail \/ taken
         newProduct == [name |-> item.name, current_stock |-> 0,
                        last_purchase_price |-> Some(item.net_price)]
     IN  /\ products' = IF createError THEN products ELSE Append(products, newProduct)
         /\ IF createError THEN ConfirmOver(c)
            ELSE confirming' =
                   [confirming EXCEPT
                      ![c] = Some([st EXCEPT !.pc = "insert_movement",
                                             !.productId = Len(products) + 1])]
         /\ lastOp' = [op |-> "confirm_insert_product", session |-> c,
                       name |-> item.name, taken |-> taken, failed |-> createError]
  /\ UNCHANGED << stock_movements, sales, sale_items, invoices, invoice_items,
                  inventories, inventory_items, editingProduct, editedData,
                  imViews >>

\* from('stock_movements').insert([{product_id: productId, movement_type:
\* 'purchase', quantity: item.quantity, reference_id: invoice.id, ...}]);
\* if (movementError) throw movementError; then the next item, and after
\* the last one the lists are reloaded.
ConfirmInsertMovement(c, fail) ==
  /\ ConfirmAt(c, "insert_movement")
  /\ LET st == Val(confirming[c])
         item == st.parsedData.items[st.k]
         row == Movement(st.productId, "purchase", item.quantity,
                         Some(st.invoice_id), "invoice_item")
     IN  /\ stock_movements' = IF fail THEN stock_movements
                               ELSE stock_movements (+) SetToBag({row})
         /\ products' =
              IF fail THEN products
              ELSE update_product_stock(
                     update_product_price_from_purchase(products, invoice_items, row),
                     "INSERT", row, row)
         /\ StockInRange(products')
         /\ IF fail \/ st.k = Len(st.parsedData.items) THEN ConfirmOver(c)
            ELSE confirming' =
                   [confirming EXCEPT
                      ![c] = Some([st EXCEPT !.pc = "select_product", !.k = st.k + 1,
                                             !.productId = 0])]
         /\ lastOp' = [op |-> "confirm_insert_movement", session |-> c,
                       failed |-> fail]
  /\ UNCHANGED << sales, sale_items, invoices, invoice_items, inventories,
                  inventory_items, editingProduct, editedData, imViews >>

(***************************************************************************)
(* SpecRace: invoice confirmations of two sessions, request by request.    *)
(***************************************************************************)
NextRace ==
  \E c \in Sessions :
    \/ \E number \in RaceInvoiceNumbers, items \in RaceItemLists, fail \in BOOLEAN :
         ConfirmInsertInvoice(c, [invoiceNumber |-> number, items |-> items], fail)
    \/ \E fail \in BOOLEAN : ConfirmInsertItems(c, fail)
    \/ \E fail \in BOOLEAN : ConfirmSelectProduct(c, fail)
    \/ \E fail \in BOOLEAN : ConfirmInsertProduct(c, fail)
    \/ \E fail \in BOOLEAN : ConfirmInsertMovement(c, fail)

SpecRace == Init /\ [][NextRace]_vars

(***************************************************************************)
(* C27: confirming an invoice whose invoice_number already exists in the   *)
(* store fails at the first write and leaves the store unchanged (no       *)
(* invoice_items, no product, no stock movement is written, and the        *)
(* handler is over), so that no two invoices share an invoice number and   *)
(* the purchase movements of an invoice number are recorded at most once   *)
(* (at most one movement per item of its one invoice), also when the       *)
(* confirmation is triggered from two sessions at the same time.           *)
(***************************************************************************)
PurchaseMovementsOf(M, invoiceId) ==
  {m \in BagToSet(M) : m.movement_type = "purchase" /\ m.reference_id = Some(invoiceId)}

C29_OneProductPerName ==
  [][ /\ \A p, q \in DOMAIN products' :
           products'[p].name = products'[q].name => p = q
      /\ (lastOp'.op = "confirm_insert_product" /\ lastOp'.taken) =>
           /\ lastOp'.failed
           /\ products' = products
           /\ stock_movements' = stock_movements
           /\ IsNull(confirming'[lastOp'.session])
    ]_vars

\* The insert of a product was refused because the other session created
\* the product after this session had looked it up.
C29_Witness ==
  /\ lastOp.op = "confirm_insert_product"
  /\ lastOp.taken
  /\ lastOp.failed
  /\ \E p \in DOMAIN products : products[p].name = lastOp.name

(***************************************************************************)
(* C28: in every reachable state an inventory has completed_at set if and  *)
(* only if its status is completed, under any interleaving of Start and    *)
(* Complete.                                                               *)
(***************************************************************************)
C28_CompletedAtIffCompleted ==
  \A i \in DOMAIN inventories :
    ~IsNull(inventories[i].completed_at) <=> inventories[i].status = "completed"

====
